---- MODULE Spec2Model ----
(***************************************************************************)
(* Model of the Micro-Manager device adapter ThorlabsKinesisTCubeServo     *)
(* (Build/ThorlabsKinesisTCubeServo.cpp and .h).                           *)
(*                                                                         *)
(* Each adapter object is one index of Adapters; its C++ fields are the    *)
(* variables of the same name, as functions of the index.  The vendor      *)
(* library (Kinesis) is represented by the set of open device handles;     *)
(* the position it reports is an input of the operation that reads it      *)
(* (the device moves on its own schedule).  Every vendor call an           *)
(* operation makes is recorded, with its return code, in the record of     *)
(* the last call.                                                          *)
(*                                                                         *)
(* Micrometre values are integers.  curPosUm_ is an exact rational: a      *)
(* whole number of micrometres plus frac/34304 micrometres, so that        *)
(* counts / 34304 * 1000 is represented without loss.  The rounding of     *)
(* the float type is not modelled; the float-to-int truncation at the      *)
(* vendor move call is.  The scratch fields pfPosition and newPosition     *)
(* are written and read inside one method only and are local definitions   *)
(* of the corresponding actions.  The log stream tmpMessage, the velocity  *)
(* fields and posUm_ (written by Initialize, read nowhere) are left out.    *)
(* Of the host's property table the model keeps the names registered for   *)
(* each adapter and the allowed values of the serial number property.      *)
(***************************************************************************)
EXTENDS Integers, Sequences, FiniteSets, TLC

----------------------------------------------------------------------------
(* Bounds and input sets *)

MaxPosIndex == 1

Adapters == {1, 2}

\* the adapter that Spec drives through its whole interface
Primary == {1}

\* serial numbers of the devices that may be attached
DeviceSerials == {"83000001"}

\* values written to the serial number property
SerialInputs == DeviceSerials \cup {""}

\* target positions handed to SetPositionUm (micrometres)
PosInputs == {100 * k : k \in -1 .. MaxPosIndex}

\* positions the vendor library reports for an open device (encoder counts)
DevicePositions == {3430 * k : k \in -1 .. MaxPosIndex}

\* values handed to SetLimits and to the limit properties (micrometres)
LimitInputs == {-100, 100}

ChannelInputs == {2}

StepInputs == {7}

\* status bit-fields the vendor library reports: no bit, each motion bit, both,
\* every other bit of a non-negative 32-bit value without and with a motion bit
StatusInputs == {0, 16, 32, 48, 2147483599, 2147483631}

----------------------------------------------------------------------------
(* Program constants *)

DEVICE_OK == "DEVICE_OK"
DEVICE_UNSUPPORTED_COMMAND == "DEVICE_UNSUPPORTED_COMMAND"

CountsPerMm == 34304
UmPerMm == 1000
DefaultMinTravelUm == 0
DefaultMaxTravelUm == 50000
DefaultChNumber == 1
\* stepSizeUm_ is kept in tenths of a micrometre: the default is 0.1
DefaultStepSizeTenths == 1

----------------------------------------------------------------------------
VARIABLES
    constructed,      \* the adapter object exists
    deviceName_, chNumber_, serialNumber_, stepSizeUm_,
    initialized_, busy_, homed_,
    minTravelUm_, maxTravelUm_, curPosUm_,
    pfMinPos, pfMaxPos,
    allowedSerials,   \* the allowed values of the "Serial Number" property
    properties,       \* the names in the host's property table of the adapter
    aptInitialized,   \* the process-wide flag of the header
    opened,           \* vendor: serial numbers with an open handle
    call              \* the last operation: name, object, arguments, results

fields == <<deviceName_, chNumber_, serialNumber_, stepSizeUm_,
            initialized_, busy_, homed_,
            minTravelUm_, maxTravelUm_, curPosUm_, pfMinPos, pfMaxPos,
            allowedSerials, properties>>

vendorState == <<opened>>

vars == <<constructed, fields, aptInitialized, vendorState, call>>

\* the fields of one adapter object
AdapterState(i) ==
    [deviceName_ |-> deviceName_[i], chNumber_ |-> chNumber_[i],
     serialNumber_ |-> serialNumber_[i], stepSizeUm_ |-> stepSizeUm_[i],
     initialized_ |-> initialized_[i], busy_ |-> busy_[i],
     homed_ |-> homed_[i], minTravelUm_ |-> minTravelUm_[i],
     maxTravelUm_ |-> maxTravelUm_[i], curPosUm_ |-> curPosUm_[i],
     pfMinPos |-> pfMinPos[i], pfMaxPos |-> pfMaxPos[i],
     allowedSerials |-> allowedSerials[i], properties |-> properties[i]]

----------------------------------------------------------------------------
(* Arithmetic *)

\* (float)curPosUm_ / 1000 * 34304 for a whole number of micrometres, as the
\* int the vendor move call receives: the fraction is cut off toward zero
UmToCounts(um) ==
    LET a == IF um >= 0 THEN um ELSE -um
        c == (a \div UmPerMm) * CountsPerMm
               + ((a % UmPerMm) * CountsPerMm) \div UmPerMm
    IN  IF um >= 0 THEN c ELSE -c

\* a conversion that leaves out the factor 1000: millimetres for micrometres
CountsToMm(counts) ==
    [um |-> counts \div CountsPerMm, frac |-> counts % CountsPerMm]

\* (double)pfPosition / 34304 * 1000, exactly: um + frac/34304 micrometres
CountsToUm(counts) ==
    LET r == (counts % CountsPerMm) * UmPerMm
    IN  [um   |-> (counts \div CountsPerMm) * UmPerMm + r \div CountsPerMm,
         frac |-> r % CountsPerMm]

WholeUm(um) == [um |-> um, frac |-> 0]

----------------------------------------------------------------------------
(* Vendor library, as seen at the call sites *)

VOk == 0
VErr == VOk + 1

\* the order in which the vendor's comma-separated list names the devices
SerialOrder == <<"83000001">>

V(fn, serialNo, rc) == [fn |-> fn, serialNo |-> serialNo, rc |-> rc]

\* a call keyed by a serial number succeeds on an open handle only
VendorRc(serialNo) == IF serialNo \in opened THEN VOk ELSE VErr

VCall(fn, serialNo) == V(fn, serialNo, VendorRc(serialNo))

\* rc of the vendor calls: 0 is success
\* the int CC_GetPosition returns: the position of an open device, 0 without one
CC_GetPosition(serialNo, position) ==
    IF serialNo \in opened THEN position ELSE 0

CC_MoveToPosition(serialNo, index) ==
    [fn |-> "CC_MoveToPosition", serialNo |-> serialNo, index |-> index,
     rc |-> VendorRc(serialNo)]

----------------------------------------------------------------------------
\* an operation without arguments, or without results besides its status
NoValues == [none |-> TRUE]

Init ==
    /\ constructed = [i \in Adapters |-> FALSE]
    /\ deviceName_ = [i \in Adapters |-> ""]
    /\ chNumber_ = [i \in Adapters |-> DefaultChNumber]
    /\ serialNumber_ = [i \in Adapters |-> ""]
    /\ stepSizeUm_ = [i \in Adapters |-> DefaultStepSizeTenths]
    /\ initialized_ = [i \in Adapters |-> FALSE]
    /\ busy_ = [i \in Adapters |-> FALSE]
    /\ homed_ = [i \in Adapters |-> FALSE]
    /\ minTravelUm_ = [i \in Adapters |-> DefaultMinTravelUm]
    /\ maxTravelUm_ = [i \in Adapters |-> DefaultMaxTravelUm]
    /\ curPosUm_ = [i \in Adapters |-> WholeUm(0)]
    /\ pfMinPos = [i \in Adapters |-> DefaultMinTravelUm]
    /\ pfMaxPos = [i \in Adapters |-> DefaultMaxTravelUm]
    /\ allowedSerials = [i \in Adapters |-> {}]
    /\ properties = [i \in Adapters |-> {}]
    /\ aptInitialized = FALSE
    /\ opened = {}
    /\ call = [op |-> "none", self |-> 0, arg |-> NoValues, ret |-> DEVICE_OK,
               out |-> NoValues, vendor |-> <<>>]

Returned(op, i, arg, ret, out, vendor) ==
    call' = [op |-> op, self |-> i, arg |-> arg, ret |-> ret,
             out |-> out, vendor |-> vendor]

Set(f, i, v) == [f EXCEPT ![i] = v]

----------------------------------------------------------------------------
(* Property registration with the host *)

CreateStep(name) == [fn |-> "CreateProperty", name |-> name, lo |-> 0, hi |-> 0]

LimitsStep(name, lo, hi) ==
    [fn |-> "SetPropertyLimits", name |-> name, lo |-> lo, hi |-> hi]

\* the host's table refuses a name it already holds
CreatePropertyRc(props, name) ==
    IF name \in props THEN "DEVICE_DUPLICATE_PROPERTY" ELSE DEVICE_OK

\* the host sets limits on a property it holds, and keeps them when lo < hi
SetPropertyLimitsRc(props, name, lo, hi) ==
    IF name \notin props THEN "DEVICE_INVALID_PROPERTY"
    ELSE IF lo >= hi THEN "DEVICE_INVALID_PROPERTY_LIMTS"
    ELSE DEVICE_OK

\* the status of each step of steps, made in order on the table props
RECURSIVE Registered(_, _)
Registered(props, steps) ==
    IF steps = <<>> THEN <<>>
    ELSE LET st == Head(steps)
             create == st.fn = "CreateProperty"
             rc == IF create THEN CreatePropertyRc(props, st.name)
                   ELSE SetPropertyLimitsRc(props, st.name, st.lo, st.hi)
         IN  <<[fn |-> st.fn, name |-> st.name, rc |-> rc]>>
             \o Registered(IF create THEN props \cup {st.name} ELSE props,
                           Tail(steps))

\* the table after the steps: a failed creation leaves it as it was
PropertiesAfter(props, steps) ==
    props \cup {steps[k].name : k \in {j \in 1 .. Len(steps) :
                                           steps[j].fn = "CreateProperty"}}

\* the registration calls of init, for n devices in the vendor's list
ConstructorRegistration(n) ==
    <<CreateStep("Name"), CreateStep("Description"),
      CreateStep("Set position (um)"),
      LimitsStep("Set position (um)", DefaultMinTravelUm, DefaultMaxTravelUm),
      CreateStep("Serial Number")>>
    \o [k \in 1 .. n |-> CreateStep("Serial Number")]
    \o <<CreateStep("Channel"),
         CreateStep("Position Lower Limit (um)"),
         CreateStep("Position Lower Limit (um)"),
         CreateStep("Position Upper Limit (um)"),
         CreateStep("Position Upper Limit (um)")>>

\* the registration calls of Initialize, in program order
InitializeRegistration(i) ==
    <<CreateStep("Serial Number"),
      CreateStep("Maximum Velocity"),
      CreateStep("Maximum Acceleration"),
      CreateStep("Set position (um)"),
      LimitsStep("Set position (um)", minTravelUm_[i], maxTravelUm_[i]),
      CreateStep("Velocity (mm/s)"),
      CreateStep("Go Home"),
      LimitsStep("Go Home", 0, 1),
      CreateStep("Position Lower Limit (um)"),
      LimitsStep("Position Lower Limit (um)",
                 pfMinPos[i] * UmPerMm, pfMaxPos[i] * UmPerMm),
      CreateStep("Position Upper Limit (um)"),
      LimitsStep("Position Upper Limit (um)",
                 pfMinPos[i] * UmPerMm, pfMaxPos[i] * UmPerMm)>>

----------------------------------------------------------------------------
(* Construction: CreateDevice, the constructor and init *)

\* the vendor calls of init's enumeration loop for the devices of list,
\* where the opens of the devices in openOk succeed
RECURSIVE EnumerationCalls(_, _)
EnumerationCalls(list, openOk) ==
    IF list = <<>> THEN <<>>
    ELSE LET s == Head(list)
         IN  <<V("TLI_GetDeviceInfo", s, VOk)>>
             \o (IF s \in openOk
                 THEN <<V("CC_Open", s, VOk), V("CC_StartPolling", s, VOk),
                        V("CC_LoadSettings", s, VOk)>>
                 ELSE <<V("CC_Open", s, VErr)>>)
             \o EnumerationCalls(Tail(list), openOk)

\* an init that leaves the vendor library alone
InitCallsNone(buildRc, found, openOk) == <<>>

\* the vendor calls of init
InitCalls(buildRc, found, openOk) ==
    <<V("TLI_GetDeviceListSize", "", VOk), V("TLI_BuildDeviceList", "", buildRc)>>
    \o (IF buildRc = VOk
        THEN <<V("TLI_GetDeviceListSize", "", VOk),
               V("TLI_GetDeviceListByTypeExt", "", VOk)>>
             \o EnumerationCalls(SelectSeq(SerialOrder, LAMBDA s : s \in found),
                                 openOk)
        ELSE <<>>)

Construct(i) ==
    /\ ~constructed[i]
    /\ \E buildRc \in {VOk, VErr}, found \in SUBSET DeviceSerials :
       \E openOk \in SUBSET found :
        /\ constructed' = Set(constructed, i, TRUE)
        /\ deviceName_' = Set(deviceName_, i, "TDC001")
        /\ chNumber_' = Set(chNumber_, i, DefaultChNumber)
        /\ serialNumber_' = Set(serialNumber_, i, "")
        /\ stepSizeUm_' = Set(stepSizeUm_, i, DefaultStepSizeTenths)
        /\ initialized_' = Set(initialized_, i, FALSE)
        /\ busy_' = Set(busy_, i, FALSE)
        /\ homed_' = Set(homed_, i, FALSE)
        /\ minTravelUm_' = Set(minTravelUm_, i, DefaultMinTravelUm)
        /\ maxTravelUm_' = Set(maxTravelUm_, i, DefaultMaxTravelUm)
        /\ curPosUm_' = Set(curPosUm_, i, WholeUm(0))
        /\ pfMinPos' = Set(pfMinPos, i, DefaultMinTravelUm)
        /\ pfMaxPos' = Set(pfMaxPos, i, DefaultMaxTravelUm)
        /\ allowedSerials' = Set(allowedSerials, i,
                                 IF buildRc = VOk THEN found ELSE {})
        /\ properties' = Set(properties, i,
               PropertiesAfter({}, ConstructorRegistration(
                   IF buildRc = VOk THEN Cardinality(found) ELSE 0)))
        /\ opened' = IF buildRc = VOk THEN opened \cup openOk ELSE opened
        /\ Returned("Construct", i, NoValues, DEVICE_OK, NoValues,
                    InitCalls(buildRc, found, openOk))
        /\ UNCHANGED aptInitialized

----------------------------------------------------------------------------
(* Stage API *)

GetLimits(i) ==
    /\ constructed[i]
    /\ Returned("GetLimits", i, NoValues, DEVICE_OK,
                [min |-> minTravelUm_[i], max |-> maxTravelUm_[i]], <<>>)
    /\ UNCHANGED <<constructed, fields, aptInitialized, vendorState>>

\* SetLimits with its two assignments crossed
SetLimitsCrossed(i) ==
    /\ constructed[i]
    /\ \E min \in LimitInputs, max \in LimitInputs :
        /\ minTravelUm_' = Set(minTravelUm_, i, max)
        /\ maxTravelUm_' = Set(maxTravelUm_, i, min)
        /\ Returned("SetLimits", i, [min |-> min, max |-> max], DEVICE_OK,
                    NoValues, <<>>)
    /\ UNCHANGED <<constructed, deviceName_, chNumber_, serialNumber_,
                   stepSizeUm_, initialized_, busy_, homed_, curPosUm_,
                   pfMinPos, pfMaxPos, allowedSerials, properties,
                   aptInitialized,
                   vendorState>>

SetLimits(i) ==
    /\ constructed[i]
    /\ \E min \in LimitInputs, max \in LimitInputs :
        /\ minTravelUm_' = Set(minTravelUm_, i, min)
        /\ maxTravelUm_' = Set(maxTravelUm_, i, max)
        /\ Returned("SetLimits", i, [min |-> min, max |-> max], DEVICE_OK,
                    NoValues, <<>>)
    /\ UNCHANGED <<constructed, deviceName_, chNumber_, serialNumber_,
                   stepSizeUm_, initialized_, busy_, homed_, curPosUm_,
                   pfMinPos, pfMaxPos, allowedSerials, properties,
                   aptInitialized, vendorState>>

\* lines 521-524: the target after the two range tests
ClampToTravel(posUm, min, max) ==
    IF posUm < min THEN min
    ELSE IF posUm > max THEN max
    ELSE posUm

SetPositionUmFlag(i, op, arg, posUm, continuousFlag) ==
    LET target == ClampToTravel(posUm, minTravelUm_[i], maxTravelUm_[i])
        newPosition == UmToCounts(target)
    IN  /\ curPosUm_' = Set(curPosUm_, i, WholeUm(target))
        /\ Returned(op, i, arg, DEVICE_OK, NoValues,
                    <<CC_MoveToPosition(serialNumber_[i], newPosition)>>)
        /\ UNCHANGED <<constructed, deviceName_, chNumber_, serialNumber_,
                       stepSizeUm_, initialized_, busy_, homed_, minTravelUm_,
                       maxTravelUm_, pfMinPos, pfMaxPos, allowedSerials, properties,
                   aptInitialized, vendorState>>

SetPositionUm(i) ==
    /\ constructed[i]
    /\ \E posUm \in PosInputs :
        SetPositionUmFlag(i, "SetPositionUm", [posUm |-> posUm], posUm, 1)

SetPositionUmContinuous(i) ==
    /\ constructed[i]
    /\ \E posUm \in PosInputs :
        SetPositionUmFlag(i, "SetPositionUmContinuous", [posUm |-> posUm], posUm, 1)

GetPositionUmBody(i, op, arg, position) ==
    LET pfPosition == CC_GetPosition(serialNumber_[i], position)
        posUm == CountsToUm(pfPosition)
    IN  /\ curPosUm_' = Set(curPosUm_, i, posUm)
        /\ Returned(op, i, arg, DEVICE_OK, [posUm |-> posUm],
                    <<VCall("CC_GetPosition", serialNumber_[i])>>)
        /\ UNCHANGED <<constructed, deviceName_, chNumber_, serialNumber_,
                       stepSizeUm_, initialized_, busy_, homed_, minTravelUm_,
                       maxTravelUm_, pfMinPos, pfMaxPos, allowedSerials, properties,
                   aptInitialized,
                       vendorState>>

GetPositionUm(i) ==
    /\ constructed[i]
    /\ \E position \in DevicePositions :
        GetPositionUmBody(i, "GetPositionUm", [position |-> position], position)

SetOrigin(i) ==
    /\ constructed[i]
    /\ Returned("SetOrigin", i, NoValues, DEVICE_UNSUPPORTED_COMMAND, NoValues, <<>>)
    /\ UNCHANGED <<constructed, fields, aptInitialized, vendorState>>

SetPositionSteps(i) ==
    /\ constructed[i]
    /\ \E steps \in StepInputs :
        Returned("SetPositionSteps", i, [steps |-> steps], DEVICE_OK, NoValues, <<>>)
    /\ UNCHANGED <<constructed, fields, aptInitialized, vendorState>>

\* steps is read from the caller's variable and left as it is
GetPositionSteps(i) ==
    /\ constructed[i]
    /\ \E steps \in StepInputs :
        /\ stepSizeUm_' = Set(stepSizeUm_, i, 10 * steps)
        /\ Returned("GetPositionSteps", i, [steps |-> steps], DEVICE_OK,
                    [steps |-> steps], <<>>)
    /\ UNCHANGED <<constructed, deviceName_, chNumber_, serialNumber_,
                   initialized_, busy_, homed_, minTravelUm_, maxTravelUm_,
                   curPosUm_, pfMinPos, pfMaxPos, allowedSerials, properties,
                   aptInitialized, vendorState>>

----------------------------------------------------------------------------
(* Homing *)

\* lines 548-558: the homed flag after Home, given the flag before and the
\* answer of CC_CanHome
HomedAfterHomeNoEarlyReturn(homed, canHome) ==
    IF canHome THEN FALSE
    ELSE TRUE

HomedAfterHome(homed, canHome) ==
    IF homed THEN homed
    ELSE IF canHome THEN FALSE
    ELSE TRUE

\* a Home that returns before the home command when the flag is set
HomeCallsSkippedWhenHomed(serialNo, homed) ==
    IF homed THEN <<>>
    ELSE <<VCall("CC_Home", serialNo), VCall("CC_CanHome", serialNo)>>

\* the vendor calls of Home
HomeCalls(serialNo, homed) ==
    <<VCall("CC_Home", serialNo)>>
    \o (IF homed THEN <<>> ELSE <<VCall("CC_CanHome", serialNo)>>)

HomeBody(i, op, arg, canHome) ==
    /\ homed_' = Set(homed_, i, HomedAfterHome(homed_[i], canHome))
    /\ Returned(op, i, arg, DEVICE_OK, NoValues,
                HomeCalls(serialNumber_[i], homed_[i]))
    /\ UNCHANGED <<constructed, deviceName_, chNumber_, serialNumber_,
                   stepSizeUm_, initialized_, busy_, minTravelUm_, maxTravelUm_,
                   curPosUm_, pfMinPos, pfMaxPos, allowedSerials, properties,
                   aptInitialized, vendorState>>

\* canHome is what the device answers to CC_CanHome
Home(i) ==
    /\ constructed[i]
    /\ \E canHome \in BOOLEAN :
        HomeBody(i, "Home", [canHome |-> canHome], canHome)

----------------------------------------------------------------------------
(* Action handlers *)

NoChange == UNCHANGED <<constructed, fields, aptInitialized, vendorState>>

\* In the AfterSet branch of the handlers the assignment under
\* if (initialized_) is followed by the same assignment without a test:
\* guarded is the value after the first, the field ends with the second.
OnSerialNumber(i) ==
    /\ constructed[i]
    /\ \/ /\ Returned("OnSerialNumber", i, [eAct |-> "BeforeGet"], DEVICE_OK,
                      [value |-> serialNumber_[i]], <<>>)
          /\ NoChange
       \/ \E value \in SerialInputs :
            LET guarded == IF initialized_[i] THEN value ELSE serialNumber_[i]
                serialNumber == value
            IN  /\ serialNumber_' = Set(Set(serialNumber_, i, guarded), i, serialNumber)
                /\ Returned("OnSerialNumber", i,
                            [eAct |-> "AfterSet", value |-> value], DEVICE_OK,
                            NoValues, <<>>)
                /\ UNCHANGED <<constructed, deviceName_, chNumber_, stepSizeUm_,
                               initialized_, busy_, homed_, minTravelUm_,
                               maxTravelUm_, curPosUm_, pfMinPos, pfMaxPos,
                               allowedSerials, properties,
                   aptInitialized, vendorState>>

OnChannelNumber(i) ==
    /\ constructed[i]
    /\ \/ /\ Returned("OnChannelNumber", i, [eAct |-> "BeforeGet"], DEVICE_OK,
                      [value |-> chNumber_[i]], <<>>)
          /\ NoChange
       \/ \E value \in ChannelInputs :
            LET guarded == IF initialized_[i] THEN value ELSE chNumber_[i]
            IN  /\ chNumber_' = Set(Set(chNumber_, i, guarded), i, value)
                /\ Returned("OnChannelNumber", i,
                            [eAct |-> "AfterSet", value |-> value], DEVICE_OK,
                            NoValues, <<>>)
                /\ UNCHANGED <<constructed, deviceName_, serialNumber_,
                               stepSizeUm_, initialized_, busy_, homed_,
                               minTravelUm_, maxTravelUm_, curPosUm_, pfMinPos,
                               pfMaxPos, allowedSerials, properties,
                   aptInitialized, vendorState>>

\* the range test of OnMinPosUm and OnMaxPosUm against pfMinPos * 1000 and
\* pfMaxPos * 1000
ClampToHw(travelUm, lo, hi) ==
    IF travelUm > hi * 1000 THEN hi * 1000
    ELSE IF travelUm < lo * 1000 THEN lo * 1000
    ELSE travelUm

OnMinPosUm(i) ==
    /\ constructed[i]
    /\ \/ LET min == ClampToHw(minTravelUm_[i], pfMinPos[i], pfMaxPos[i])
          IN  /\ minTravelUm_' = Set(minTravelUm_, i, min)
              /\ Returned("OnMinPosUm", i, [eAct |-> "BeforeGet"], DEVICE_OK,
                          [value |-> min], <<>>)
       \/ \E value \in LimitInputs :
            LET guarded == IF initialized_[i] THEN value ELSE minTravelUm_[i]
                min == ClampToHw(value, pfMinPos[i], pfMaxPos[i])
            IN  /\ minTravelUm_' = Set(Set(minTravelUm_, i, guarded), i, min)
                /\ Returned("OnMinPosUm", i,
                            [eAct |-> "AfterSet", value |-> value], DEVICE_OK,
                            NoValues, <<>>)
    /\ UNCHANGED <<constructed, deviceName_, chNumber_, serialNumber_,
                   stepSizeUm_, initialized_, busy_, homed_, maxTravelUm_,
                   curPosUm_, pfMinPos, pfMaxPos, allowedSerials, properties,
                   aptInitialized, vendorState>>

OnMaxPosUm(i) ==
    /\ constructed[i]
    /\ \/ LET max == ClampToHw(maxTravelUm_[i], pfMinPos[i], pfMaxPos[i])
          IN  /\ maxTravelUm_' = Set(maxTravelUm_, i, max)
              /\ Returned("OnMaxPosUm", i, [eAct |-> "BeforeGet"], DEVICE_OK,
                          [value |-> max], <<>>)
       \/ \E value \in LimitInputs :
            LET guarded == IF initialized_[i] THEN value ELSE maxTravelUm_[i]
                max == ClampToHw(value, pfMinPos[i], pfMaxPos[i])
            IN  /\ maxTravelUm_' = Set(Set(maxTravelUm_, i, guarded), i, max)
                /\ Returned("OnMaxPosUm", i,
                            [eAct |-> "AfterSet", value |-> value], DEVICE_OK,
                            NoValues, <<>>)
    /\ UNCHANGED <<constructed, deviceName_, chNumber_, serialNumber_,
                   stepSizeUm_, initialized_, busy_, homed_, minTravelUm_,
                   curPosUm_, pfMinPos, pfMaxPos, allowedSerials, properties,
                   aptInitialized, vendorState>>

OnPosition(i) ==
    /\ constructed[i]
    /\ \/ \E position \in DevicePositions :
            GetPositionUmBody(i, "OnPosition",
                              [eAct |-> "BeforeGet", position |-> position],
                              position)
       \/ \E pos \in PosInputs :
            SetPositionUmFlag(i, "OnPosition", [eAct |-> "AfterSet", value |-> pos],
                              pos, 1)

OnHome(i) ==
    /\ constructed[i]
    /\ \/ /\ Returned("OnHome", i, [eAct |-> "BeforeGet"], DEVICE_OK,
                      [value |-> IF homed_[i] THEN 1 ELSE 0], <<>>)
          /\ NoChange
       \/ \E homed \in {0, 1}, canHome \in BOOLEAN :
            HomeBody(i, "OnHome",
                     [eAct |-> "AfterSet", value |-> homed, canHome |-> canHome],
                     canHome)

----------------------------------------------------------------------------
(* Lifecycle *)

\* UpdateStatus runs the BeforeGet handler of every property and returns
\* the first status that is not DEVICE_OK; the handlers above all return
\* DEVICE_OK
UpdateStatus == DEVICE_OK

\* position is what the device reports to the CC_GetPosition call of
\* GetPositionUm; the value of the earlier call goes to posUm_
Initialize(i) ==
    /\ constructed[i]
    /\ \E position \in DevicePositions :
       LET serialNo == serialNumber_[i]
           steps == InitializeRegistration(i)
           ret == UpdateStatus
       IN  /\ aptInitialized' = TRUE
           \* the status of every registration call is dropped
           /\ properties' = Set(properties, i, PropertiesAfter(properties[i], steps))
           \* UpdateStatus: OnMinPosUm, OnMaxPosUm and OnPosition with BeforeGet
           /\ minTravelUm_' = Set(minTravelUm_, i,
                  ClampToHw(minTravelUm_[i], pfMinPos[i], pfMaxPos[i]))
           /\ maxTravelUm_' = Set(maxTravelUm_, i,
                  ClampToHw(maxTravelUm_[i], pfMinPos[i], pfMaxPos[i]))
           /\ curPosUm_' = Set(curPosUm_, i, CountsToUm(CC_GetPosition(serialNo, position)))
           /\ initialized_' = Set(initialized_, i,
                  IF ret # DEVICE_OK THEN initialized_[i] ELSE TRUE)
           /\ Returned("Initialize", i, [position |-> position], ret,
                       [registration |-> Registered(properties[i], steps)],
                       <<VCall("CC_GetMotorVelocityLimits", serialNo),
                         VCall("CC_GetPosition", serialNo),
                         VCall("CC_GetPosition", serialNo),
                         VCall("CC_GetMotorVelocityLimits", serialNo)>>)
    /\ UNCHANGED <<constructed, deviceName_, chNumber_, serialNumber_,
                   stepSizeUm_, busy_, homed_, pfMinPos, pfMaxPos, allowedSerials,
                   vendorState>>

\* a Shutdown that refuses an adapter that is not initialized
ShutdownInitializedOnly(i) ==
    /\ constructed[i]
    /\ initialized_' = Set(initialized_, i, FALSE)
    /\ opened' = IF initialized_[i] THEN opened \ {serialNumber_[i]} ELSE opened
    /\ Returned("Shutdown", i, NoValues,
                IF initialized_[i] THEN DEVICE_OK ELSE "DEVICE_NOT_CONNECTED",
                NoValues,
                IF initialized_[i] THEN <<VCall("CC_Close", serialNumber_[i])>>
                                   ELSE <<>>)
    /\ UNCHANGED <<constructed, deviceName_, chNumber_, serialNumber_,
                   stepSizeUm_, busy_, homed_, minTravelUm_, maxTravelUm_,
                   curPosUm_, pfMinPos, pfMaxPos, allowedSerials, properties,
                   aptInitialized>>

Shutdown(i) ==
    /\ constructed[i]
    /\ initialized_' = Set(initialized_, i,
           IF initialized_[i] THEN FALSE ELSE initialized_[i])
    /\ opened' = opened \ {serialNumber_[i]}
    /\ Returned("Shutdown", i, NoValues, DEVICE_OK, NoValues,
                <<VCall("CC_Close", serialNumber_[i])>>)
    /\ UNCHANGED <<constructed, deviceName_, chNumber_, serialNumber_,
                   stepSizeUm_, busy_, homed_, minTravelUm_, maxTravelUm_,
                   curPosUm_, pfMinPos, pfMaxPos, allowedSerials, properties,
                   aptInitialized>>

(* Busy *)

MovingCW == 16
MovingCCW == 32

\* status & mask for a mask of one bit
BitAnd(status, mask) == IF (status \div mask) % 2 = 1 THEN mask ELSE 0

\* a test of the clockwise bit alone
IsMovingClockwiseOnly(status) == BitAnd(status, MovingCW) # 0

\* isMovingCW || isMovingCCW
IsMoving(status) ==
    LET isMovingCW == BitAnd(status, MovingCW)
        isMovingCCW == BitAnd(status, MovingCCW)
    IN  isMovingCW # 0 \/ isMovingCCW # 0

\* status is what CC_GetStatusBits returns after the 200 ms wait
Busy(i) ==
    /\ constructed[i]
    /\ \E status \in StatusInputs :
       LET isBusy == IsMoving(status)
       IN  Returned("Busy", i, [status |-> status],
                    IF isBusy THEN "true" ELSE "false", NoValues,
                    <<VCall("CC_RequestStatusBits", serialNumber_[i]),
                      V("CC_GetStatusBits", serialNumber_[i], status)>>)
    /\ NoChange

----------------------------------------------------------------------------
Next ==
    \E i \in Primary :
        \/ Construct(i)
        \/ Initialize(i)
        \/ Shutdown(i)
        \/ Busy(i)
        \/ GetPositionUm(i)
        \/ SetPositionUm(i)
        \/ SetPositionUmContinuous(i)
        \/ SetOrigin(i)
        \/ SetPositionSteps(i)
        \/ GetPositionSteps(i)
        \/ GetLimits(i)
        \/ SetLimits(i)
        \/ Home(i)
        \/ OnSerialNumber(i)
        \/ OnChannelNumber(i)
        \/ OnMinPosUm(i)
        \/ OnMaxPosUm(i)
        \/ OnPosition(i)
        \/ OnHome(i)

Spec == Init /\ [][Next]_vars

\* several adapter objects in one process: their construction, selection of
\* a device, initialization and shutdown, in any order
NextLifecycle ==
    \E i \in Adapters :
        \/ Construct(i)
        \/ OnSerialNumber(i)
        \/ Initialize(i)
        \/ Shutdown(i)

SpecLifecycle == Init /\ [][NextLifecycle]_vars

----------------------------------------------------------------------------
(* Properties *)

\* the last call was made on adapter i and was one of ops
Called(i, ops) == call.self = i /\ call.op \in ops

\* the last call was an AfterSet of one of the handlers in ops
Written(i, ops) == Called(i, ops) /\ call.arg.eAct = "AfterSet"

\* some vendor call of the last operation satisfies P
SomeVendorCall(P(_)) == \E k \in 1 .. Len(call.vendor) : P(call.vendor[k])

DiscoveryCalls ==
    {"TLI_GetDeviceListSize", "TLI_BuildDeviceList", "TLI_GetDeviceListByTypeExt",
     "TLI_GetDeviceInfo", "CC_Open", "CC_StartPolling", "CC_LoadSettings"}

\* C2: the cached travel limits satisfy min <= max in every reachable state.
C2_LimitsOrdered ==
    \A i \in Adapters : minTravelUm_[i] <= maxTravelUm_[i]

\* C1: SetPositionUm(p) and SetPositionUmContinuous(p) issue the target
\* min for p < min, max for p > max and p otherwise, and the issued target
\* lies in [min, max].
C1_IssuedTargetClamped ==
    \A i \in Adapters :
        Called(i, {"SetPositionUm", "SetPositionUmContinuous"}) =>
            LET p == call.arg.posUm
                min == minTravelUm_[i]
                max == maxTravelUm_[i]
                issued == call.vendor[1].index
            IN  /\ p < min => issued = UmToCounts(min)
                /\ p > max => issued = UmToCounts(max)
                /\ (min <= p /\ p <= max) => issued = UmToCounts(p)
                /\ UmToCounts(min) <= issued
                /\ issued <= UmToCounts(max)

\* the targets of C1 in the states whose limits are ordered
C1_IssuedTargetClampedIfOrdered ==
    C2_LimitsOrdered => C1_IssuedTargetClamped

\* C3: GetLimits called directly after SetLimits(a, b) returns DEVICE_OK
\* with min = a and max = b, whatever a and b are, and no GetLimits call
\* changes a cached limit.
C3_GetLimitsReturnsSetLimits ==
    [][\A i \in Adapters :
          (call'.self = i /\ call'.op = "GetLimits") =>
              /\ call'.ret = DEVICE_OK
              /\ minTravelUm_'[i] = minTravelUm_[i]
              /\ maxTravelUm_'[i] = maxTravelUm_[i]
              /\ Called(i, {"SetLimits"}) =>
                    /\ call'.out.min = call.arg.min
                    /\ call'.out.max = call.arg.max]_vars

\* GetLimits has returned a pair a > b that only SetLimits can have stored
C3_Witness ==
    /\ Called(1, {"GetLimits"})
    /\ call.out = [min |-> 100, max |-> -100]

\* C4: every Shutdown call returns DEVICE_OK and leaves initialized_ false,
\* and a Shutdown that follows a Shutdown leaves the adapter's fields as
\* they were.
C4_ShutdownIdempotent ==
    [][\A i \in Adapters :
          (call'.self = i /\ call'.op = "Shutdown") =>
              /\ call'.ret = DEVICE_OK
              /\ ~initialized_'[i]
              /\ Called(i, {"Shutdown"}) => AdapterState(i)' = AdapterState(i)]_vars

\* Shutdown has run on an adapter that Initialize had initialized and whose
\* device handle is already closed
C4_Witness ==
    /\ Called(1, {"Shutdown"})
    /\ aptInitialized
    /\ ~initialized_[1]
    /\ serialNumber_[1] \in allowedSerials[1]
    /\ call.vendor[1].rc # VOk

\* the last call ran Home on adapter i
HomeCalled(i) == Called(i, {"Home"}) \/ Written(i, {"OnHome"})

\* C5 as stated: after Home the homed flag is true if the device cannot
\* home and false if it can, from any state.
C5_HomedFollowsReport ==
    \A i \in Adapters :
        HomeCalled(i) => (homed_[i] <=> ~call.arg.canHome)

\* C5 as amended: Home called with the homed flag false leaves it true if
\* the device cannot home and false if it can; called with the flag true,
\* it leaves the flag true.
C5_HomedFollowsReportUnlessHomed ==
    [][\A i \in Adapters :
          (call'.self = i
             /\ (call'.op = "Home"
                   \/ (call'.op = "OnHome" /\ call'.arg.eAct = "AfterSet"))) =>
              (homed_'[i] <=> (homed_[i] \/ ~call'.arg.canHome))]_vars

\* Home has asked a device that cannot home, and the flag is set
C5_Witness ==
    /\ HomeCalled(1)
    /\ Len(call.vendor) = 2
    /\ ~call.arg.canHome
    /\ homed_[1]

\* C6: a write to the serial number, channel, lower limit or upper limit
\* property made while initialized_ is false leaves the four fields
\* unchanged.
C6_WritesNeedInitialized ==
    [][\A i \in Adapters :
          (/\ call'.self = i
           /\ call'.op \in {"OnSerialNumber", "OnChannelNumber",
                            "OnMinPosUm", "OnMaxPosUm"}
           /\ call'.arg.eAct = "AfterSet"
           /\ ~initialized_[i]) =>
              /\ serialNumber_'[i] = serialNumber_[i]
              /\ chNumber_'[i] = chNumber_[i]
              /\ minTravelUm_'[i] = minTravelUm_[i]
              /\ maxTravelUm_'[i] = maxTravelUm_[i]]_vars

FailedQuery(v) ==
    v.fn \in {"CC_GetMotorVelocityLimits", "CC_GetPosition"} /\ v.rc # VOk

\* C7: an Initialize during which the velocity limit query or the position
\* query fails returns a status other than DEVICE_OK and does not set
\* initialized_.
C7_InitializeFailsOnQueryError ==
    \A i \in Adapters :
        (Called(i, {"Initialize"}) /\ SomeVendorCall(FailedQuery)) =>
            (call.ret # DEVICE_OK /\ ~initialized_[i])

\* C8: SetPositionSteps, GetPositionSteps and SetOrigin return
\* DEVICE_UNSUPPORTED_COMMAND and change no field of the adapter.
C8_UnsupportedOperations ==
    [][\A i \in Adapters :
          (call'.self = i
             /\ call'.op \in {"SetPositionSteps", "GetPositionSteps", "SetOrigin"}) =>
              /\ call'.ret = DEVICE_UNSUPPORTED_COMMAND
              /\ AdapterState(i)' = AdapterState(i)]_vars

AcceptedMotion(v) ==
    v.fn \in {"CC_MoveToPosition", "CC_Home"} /\ v.rc = VOk

\* C9: while serialNumber_ is empty or is none of the enumerated serial
\* numbers, SetPositionUm, SetPositionUmContinuous and Home do not return
\* DEVICE_OK and issue no move or home command that the vendor accepts.
C9_MotionNeedsEnumeratedSerial ==
    \A i \in Adapters :
        (/\ Called(i, {"SetPositionUm", "SetPositionUmContinuous", "Home"})
         /\ (serialNumber_[i] = "" \/ serialNumber_[i] \notin allowedSerials[i])) =>
            (call.ret # DEVICE_OK /\ ~SomeVendorCall(AcceptedMotion))

IsDiscoveryCall(v) == v.fn \in DiscoveryCalls

\* C10 as stated: the constructor issues no vendor call.
C10_ConstructorMakesNoVendorCall ==
    \A i \in Adapters : Called(i, {"Construct"}) => call.vendor = <<>>

IsListBuild(v) == v.fn = "TLI_BuildDeviceList"

IsQuery(v) == v.fn \in {"CC_GetMotorVelocityLimits", "CC_GetPosition"}

\* C10 as amended: the constructor builds the vendor device list; the
\* device list calls and the open, start-polling and load-settings calls
\* are issued by the constructor only, and the vendor calls of Initialize
\* are the velocity limit and position queries.
C10_DiscoveryInConstructorOnly ==
    \A i \in Adapters :
        /\ Called(i, {"Construct"}) => SomeVendorCall(IsListBuild)
        /\ (call.self = i /\ call.op # "Construct") => ~SomeVendorCall(IsDiscoveryCall)
        /\ Called(i, {"Initialize"}) =>
              /\ call.vendor # <<>>
              /\ \A k \in 1 .. Len(call.vendor) : IsQuery(call.vendor[k])

OpenedDevice(v) == v.fn = "CC_Open" /\ v.rc = VOk

\* the constructor has opened a device
C10_Witness ==
    /\ Called(1, {"Construct"})
    /\ SomeVendorCall(OpenedDevice)
    /\ opened # {}

----------------------------------------------------------------------------
\* C11: Busy returns true exactly when bit 0x10 or bit 0x20 of the status
\* bit-field is set, whatever the other bits are, and it changes no field of
\* the adapter; busy_ keeps its constructed value through every operation.
C11_BusyIffMotionBit ==
    [][\A i \in Adapters :
          /\ (call'.self = i /\ call'.op = "Busy") =>
                 /\ (call'.ret = "true") <=> ((call'.arg.status \div 16) % 4 # 0)
                 /\ call'.ret \in {"true", "false"}
                 /\ AdapterState(i)' = AdapterState(i)
          /\ constructed[i] => busy_'[i] = busy_[i]]_vars

\* Busy has answered true for a status with the counter-clockwise bit only,
\* among other bits
C11_Witness ==
    /\ Called(1, {"Busy"})
    /\ call.arg.status = 2147483631
    /\ call.ret = "true"

----------------------------------------------------------------------------
\* a GetPositionUm of adapter i that follows its SetPositionUm(p), with p
\* inside the travel limits, and reads the count which that call issued
RoundTrip(i) ==
    /\ Called(i, {"SetPositionUm"})
    /\ minTravelUm_[i] <= call.arg.posUm
    /\ call.arg.posUm <= maxTravelUm_[i]
    /\ call'.self = i
    /\ call'.op = "GetPositionUm"
    /\ CC_GetPosition(serialNumber_[i], call'.arg.position) = call.vendor[1].index

\* reported position minus p, in units of 1/34304 micrometre
RoundTripError == (call'.out.posUm.um - call.arg.posUm) * CountsPerMm
                      + call'.out.posUm.frac

----------------------------------------------------------------------------
\* C13: when a registration call of Initialize (CreateProperty,
\* CreateFloatProperty, SetPropertyLimits) returns an error, a duplicate
\* registration included, Initialize returns that error, makes no later
\* registration call and leaves initialized_ false.
C13_RegistrationFailureStopsInitialize ==
    \A i \in Adapters :
        Called(i, {"Initialize"}) =>
            \A k \in 1 .. Len(call.out.registration) :
                call.out.registration[k].rc # DEVICE_OK =>
                    /\ call.ret = call.out.registration[k].rc
                    /\ k = Len(call.out.registration)
                    /\ ~initialized_[i]

----------------------------------------------------------------------------
IsOpenOrPolling(v) == v.fn \in {"CC_Open", "CC_StartPolling"}

\* C14: the vendor subsystem is initialised at most once for all adapter
\* objects of the process: a constructor that runs when another adapter has
\* been constructed before it (and so has built the device list and opened
\* the devices it enumerated) builds no device list and neither opens nor
\* starts polling a device the other adapter enumerated.
C14_VendorInitialisedOnce ==
    \A i \in Adapters :
        Called(i, {"Construct"}) =>
            \A j \in Adapters \ {i} :
                constructed[j] =>
                    /\ ~SomeVendorCall(IsListBuild)
                    /\ \A k \in 1 .. Len(call.vendor) :
                          IsOpenOrPolling(call.vendor[k]) =>
                              call.vendor[k].serialNo \notin allowedSerials[j]

----------------------------------------------------------------------------
IsHomeCommand(v) == v.fn = "CC_Home"

----------------------------------------------------------------------------
\* C16: no handle that an adapter's constructor opened is open after its
\* Shutdown.  When adapter i is the only object constructed, every open
\* handle was opened by its constructor and has had no close since; after
\* Shutdown of i there is none, whichever serial number is selected.
C16_ShutdownClosesOpenedHandles ==
    \A i \in Adapters :
        (Called(i, {"Shutdown"}) /\ \A j \in Adapters \ {i} : ~constructed[j]) =>
            opened = {}

====
